---- MODULE Spec2Model ----
(***************************************************************************)
(* Ledger/Payment core of the job portal: POST /jobs/:job_id/pay and       *)
(* POST /balances/deposit/:userId, each behind the getProfile middleware.  *)
(* Every request is a process that advances from one await to the next;    *)
(* the store is shared.  Money is counted in cents (DECIMAL(12,2) columns);*)
(* the arithmetic the deposit handler does in JavaScript numbers is        *)
(* modelled on IEEE-754 binary64 values, bit by bit.                       *)
(***************************************************************************)
EXTENDS Integers, Sequences, FiniteSets, TLC

\* --------------------------------------------------------------- bounds
\* Number of HTTP requests that are issued (each runs once, they interleave).
NumRequests == 2

Requests == 1..NumRequests

\* ------------------------------------------------------------ seed data
\* Accounts: two clients and one contractor.
Profiles == {1, 2, 3}

ProfileType == (1 :> "client") @@ (2 :> "client") @@ (3 :> "contractor")

InitBalance == (1 :> 70) @@ (2 :> 40) @@ (3 :> 0)

\* Contracts: ClientId, ContractorId, status.
Contracts == {1, 2, 3, 4}

ContractClientId == (1 :> 1) @@ (2 :> 2) @@ (3 :> 1) @@ (4 :> 2)

ContractContractorId == (1 :> 3) @@ (2 :> 3) @@ (3 :> 3) @@ (4 :> 3)

IN_PROGRESS == "in_progress"

ContractStatusOf ==
  (1 :> IN_PROGRESS) @@ (2 :> IN_PROGRESS) @@ (3 :> "terminated") @@ (4 :> "new")

\* Jobs: ContractId, price in cents, initial paid flag.
Jobs == {1, 2, 3, 4, 5}

JobContractId == (1 :> 1) @@ (2 :> 1) @@ (3 :> 2) @@ (4 :> 3) @@ (5 :> 4)

JobPrice == (1 :> 10) @@ (2 :> 70) @@ (3 :> 40) @@ (4 :> 30) @@ (5 :> 20)

InitPaid ==
  (1 :> "false") @@ (2 :> "null") @@ (3 :> "false") @@ (4 :> "false") @@ (5 :> "null")

\* job_id path parameters a caller may send: the jobs and one id of no job.
JobIdParams == Jobs \cup {6}

\* userId path parameters of a deposit.
UserIdParams == Profiles

\* ------------------------------------------- JavaScript numbers (binary64)
\* A positive number is 0.m[1]m[2]..m[Precision] * 2^e with m[1] = 1; zero has
\* the empty significand.  Only non-negative numbers are computed with here.
Precision == 53

DZero == [e |-> 0, m |-> <<>>]

Zeros(k) == [i \in 1..k |-> 0]

\* The carry into digit i of a + b, two bit strings of one length: the nearest
\* digit below i that does not pass a carry on makes one.
Carry(a, b, i) ==
  \E j \in (i + 1)..Len(a) :
    /\ a[j] = 1 /\ b[j] = 1
    /\ \A k \in (i + 1)..(j - 1) : a[k] # b[k]

\* a + b: the carry out, and the digits.
AddBits(a, b) ==
  [c |-> IF Carry(a, b, 0) THEN 1 ELSE 0,
   bits |-> [i \in 1..Len(a) |->
               (a[i] + b[i] + (IF Carry(a, b, i) THEN 1 ELSE 0)) % 2]]

\* Round to nearest, ties to even: bits is the exact significand (bits[1] = 1),
\* sticky says whether non-zero digits follow it.
RoundNearestEven(bits, sticky, e) ==
  IF Len(bits) <= Precision
  THEN [e |-> e, m |-> bits \o Zeros(Precision - Len(bits))]
  ELSE LET keep == SubSeq(bits, 1, Precision)
           guard == bits[Precision + 1]
           rest == sticky \/ \E i \in (Precision + 2)..Len(bits) : bits[i] = 1
           up == guard = 1 /\ (rest \/ keep[Precision] = 1)
           inc == AddBits(keep, Zeros(Precision - 1) \o <<1>>)
       IN IF ~up THEN [e |-> e, m |-> keep]
          ELSE IF inc.c = 1 THEN [e |-> e + 1, m |-> <<1>> \o Zeros(Precision - 1)]
          ELSE [e |-> e, m |-> inc.bits]

\* n/d = (nn/dd) * 2^e with 1/2 <= nn/dd < 1.
RECURSIVE Normalize(_, _, _)
Normalize(n, d, e) ==
  IF n >= d THEN Normalize(n, 2 * d, e + 1)
  ELSE IF 2 * n < d THEN Normalize(2 * n, d, e - 1)
  ELSE [n |-> n, d |-> d, e |-> e]

\* The first k binary digits of rem/d (rem < d), and the remainder after them.
RECURSIVE DivBits(_, _, _)
DivBits(rem, d, k) ==
  IF k = 1
  THEN LET b == IF 2 * rem >= d THEN 1 ELSE 0
       IN [bits |-> <<b>>, rem |-> 2 * rem - b * d]
  ELSE LET first == DivBits(rem, d, k \div 2)
           last == DivBits(first.rem, d, k - k \div 2)
       IN [bits |-> first.bits \o last.bits, rem |-> last.rem]

\* parseFloat of the decimal n/d: the nearest binary64 number.
DecimalToDouble(n, d) ==
  IF n = 0 THEN DZero
  ELSE LET z == Normalize(n, d, 0)
           q == DivBits(z.n, z.d, Precision + 1)
       IN RoundNearestEven(q.bits, q.rem # 0, z.e)

\* Whether the nearest binary64 number to n/d lies below n/d.
DecimalRoundsDown(n, d) ==
  /\ n # 0
  /\ LET z == Normalize(n, d, 0)
         q == DivBits(z.n, z.d, Precision + 1)
     IN /\ q.bits[Precision + 1] = 1 \/ q.rem # 0
        /\ RoundNearestEven(q.bits, q.rem # 0, z.e) =
             [e |-> z.e, m |-> SubSeq(q.bits, 1, Precision)]

\* x + y.
FAdd(x, y) ==
  IF x.m = <<>> THEN y
  ELSE IF y.m = <<>> THEN x
  ELSE LET hi == IF x.e >= y.e THEN x ELSE y
           lo == IF x.e >= y.e THEN y ELSE x
           d == hi.e - lo.e
           s == AddBits(hi.m \o Zeros(d), Zeros(d) \o lo.m)
       IN IF s.c = 1 THEN RoundNearestEven(<<1>> \o s.bits, FALSE, hi.e + 1)
          ELSE RoundNearestEven(s.bits, FALSE, hi.e)

\* x * 2^k.
FScale(x, k) == IF x.m = <<>> THEN x ELSE [x EXCEPT !.e = @ + k]

\* x > y.
FGreater(x, y) ==
  IF x.m = <<>> THEN FALSE
  ELSE IF y.m = <<>> THEN TRUE
  ELSE IF x.e # y.e THEN x.e > y.e
  ELSE \E i \in 1..Precision :
         /\ x.m[i] > y.m[i]
         /\ \A j \in 1..(i - 1) : x.m[j] = y.m[j]

\* A column value of DECIMAL(12,2), given in cents, as the number read from it.
CentsToDouble(c) == DecimalToDouble(c, 100)

\* amount.toFixed(2) of the number parsed from the decimal mills/1000, in
\* cents: the nearest cent to the number itself, the larger at a tie.
ToFixed2(mills) ==
  IF mills % 10 = 5 /\ DecimalRoundsDown(mills, 1000)
  THEN mills \div 10
  ELSE (mills + 5) \div 10

\* ---------------------------------------------------------------- state
VARIABLES
  balance,      \* Profiles row -> committed balance, in cents
  paid,         \* Jobs row -> committed paid flag: "true", "false" or "null"
  paymentDate,  \* Jobs row -> committed paymentDate (0 is NULL)
  now,          \* the clock read by new Date()
  req           \* request -> its handler's locals and position

vars == <<balance, paid, paymentDate, now, req>>

NoProfile == [id |-> 0, type |-> "none", balance |-> 0]

\* req.body.amount: not a number, Infinity, or a decimal given in thousandths.
NoBody == [kind |-> "none", mills |-> 0]

AmountParams ==
  {[kind |-> "NaN", mills |-> 0], [kind |-> "Infinity", mills |-> 0]}
    \cup {[kind |-> "number", mills |-> m] : m \in {-100, 0, 4, 100, 110, 200}}

NoJob == [found |-> FALSE, id |-> 0, paid |-> "null", price |-> 0,
          ClientId |-> 0, ContractorId |-> 0, contractorBalance |-> 0]

IdleRequest ==
  [pc |-> "idle", op |-> "none", profile |-> NoProfile, job_id |-> 0,
   userId |-> 0, body |-> NoBody, amount |-> 0, job |-> NoJob,
   unpaidJobs |-> {}, txn |-> "none", wrows |-> {},
   wbalance |-> [p \in Profiles |-> 0], wdate |-> 0, result |-> "none",
   newBalance |-> DZero, after |-> {}]

Init ==
  /\ balance = InitBalance
  /\ paid = InitPaid
  /\ paymentDate = [j \in Jobs |-> 0]
  /\ now = 0
  /\ req = [r \in Requests |-> IdleRequest]

\* ---------------------------------------------------------------- store
\* Row names of the two tables the handlers write.
ProfileRow(p) == <<"Profiles", p>>

JobRow(j) == <<"Jobs", j>>

\* A row is locked by the open transaction that has written it.
LockedByOther(r, row) ==
  \E q \in Requests \ {r} : req[q].txn = "open" /\ row \in req[q].wrows

\* The row the update a request stands at writes.
WriteRow(r) ==
  CASE req[r].pc = "payUpdateContractor" -> ProfileRow(req[r].job.ContractorId)
    [] req[r].pc = "payUpdateJob" -> JobRow(req[r].job.id)
    [] OTHER -> ProfileRow(req[r].profile.id)

\* t.commit(): the transaction's writes become the committed rows, at once.
CommittedBalance(r) ==
  [p \in Profiles |->
     IF ProfileRow(p) \in req[r].wrows THEN req[r].wbalance[p] ELSE balance[p]]

CommittedPaid(r) ==
  [j \in Jobs |-> IF JobRow(j) \in req[r].wrows THEN "true" ELSE paid[j]]

CommittedPaymentDate(r) ==
  [j \in Jobs |-> IF JobRow(j) \in req[r].wrows THEN req[r].wdate ELSE paymentDate[j]]

\* The handler has sent its response and returned: its locals are gone, what
\* the caller sent and what it was answered stay on record.
Responded(q, result, txn) ==
  [q EXCEPT !.pc = "done", !.result = result, !.txn = txn,
            !.profile.balance = 0, !.job = NoJob, !.unpaidJobs = {},
            !.wrows = {}, !.wbalance = [p \in Profiles |-> 0], !.wdate = 0]

\* The handler's promise was rejected by an error thrown in its catch block.
\* A router that ignores the promise leaves the request without a response...
Unanswered(q, txn) == [Responded(q, "none", txn) EXCEPT !.pc = "unanswered"]

\* ... and one that forwards the rejection answers from the error-handling
\* middleware: res.status(err.status || 500).json({ error: err.message }).
ErrorMiddleware(q, txn) == Responded(q, "InternalError", txn)

\* ----------------------------------------------------------- getProfile
\* The middleware: Profile.findOne by the profile_id header, outside any
\* transaction.  The resolved instance is req.profile for the handler.
GetProfile(r) ==
  /\ req[r].pc = "idle"
  /\ \E profileId \in Profiles \cup {0} :
       req' = [req EXCEPT ![r] =
         IF profileId = 0
         THEN [Responded(@, "Unauthorized", "none") EXCEPT
                 !.after = {q \in Requests : req[q].pc = "done"}]
         ELSE [@ EXCEPT !.pc = "handler",
                        !.profile = [id |-> profileId,
                                     type |-> ProfileType[profileId],
                                     balance |-> balance[profileId]],
                        !.after = {q \in Requests : req[q].pc = "done"}]]
  /\ UNCHANGED <<balance, paid, paymentDate, now>>

\* Profile.findOne rejects: the middleware's catch answers 500.
GetProfileError(r) ==
  /\ req[r].pc = "idle"
  /\ req' = [req EXCEPT ![r] =
       [Responded(@, "InternalError", "none") EXCEPT
          !.after = {q \in Requests : req[q].pc = "done"}]]
  /\ UNCHANGED <<balance, paid, paymentDate, now>>

\* ------------------------------------------------- POST /jobs/:job_id/pay
\* Validation 1: client.type !== 'client'.
PayerNotClientNever(client) == FALSE

PayerNotClient(client) == client.type # "client"

\* Validation 1 and sequelize.transaction().
PayBegin(r) ==
  /\ req[r].pc = "handler"
  /\ \E job_id \in JobIdParams :
       req' = [req EXCEPT ![r] =
         IF PayerNotClient(req[r].profile)
         THEN Responded([@ EXCEPT !.op = "pay"], "Forbidden", "none")
         ELSE [@ EXCEPT !.pc = "payFindJob", !.op = "pay", !.job_id = job_id,
                        !.txn = "open"]]
  /\ UNCHANGED <<balance, paid, paymentDate, now>>

\* sequelize.transaction() rejects: it is awaited outside the try block, so
\* the handler's promise is rejected.
PayTransactionError(r) ==
  /\ req[r].pc = "handler"
  /\ ~PayerNotClient(req[r].profile)
  /\ \E job_id \in JobIdParams, forwarded \in BOOLEAN :
       req' = [req EXCEPT ![r] =
         IF forwarded
         THEN ErrorMiddleware([@ EXCEPT !.op = "pay", !.job_id = job_id], "none")
         ELSE Unanswered([@ EXCEPT !.op = "pay", !.job_id = job_id], "none")]
  /\ UNCHANGED <<balance, paid, paymentDate, now>>

\* Job.findOne with its Contract, Client and Contractor, read in the
\* transaction: the committed rows.
FindJob(job_id) ==
  IF job_id \notin Jobs THEN NoJob
  ELSE [found |-> TRUE, id |-> job_id, paid |-> paid[job_id],
        price |-> JobPrice[job_id],
        ClientId |-> ContractClientId[JobContractId[job_id]],
        ContractorId |-> ContractContractorId[JobContractId[job_id]],
        contractorBalance |-> balance[ContractContractorId[JobContractId[job_id]]]]

\* Validation 5: client.balance < job.price.
InsufficientBalanceSwapped(clientBalance, price) == price < clientBalance

InsufficientBalanceOrEqual(clientBalance, price) == clientBalance <= price

InsufficientBalance(clientBalance, price) == clientBalance < price

\* Validation 3: job.paid === true.
AlreadyPaidNever(jobPaid) == FALSE

AlreadyPaidUnlessFalse(jobPaid) == jobPaid # "false"

AlreadyPaid(jobPaid) == jobPaid = "true"

\* Validation 4: job.Contract.ClientId !== client.id.
NotContractClientNever(job, client) == FALSE

NotContractClient(job, client) == job.ClientId # client.id

\* Validations 2 to 5 in the handler's order: the rejection, or "none".
PayRejectionForbiddenFirst(profile, job) ==
  IF ~job.found THEN "NotFound"
  ELSE IF NotContractClient(job, profile) THEN "Forbidden"
  ELSE IF AlreadyPaid(job.paid) THEN "AlreadyPaid"
  ELSE IF InsufficientBalance(profile.balance, job.price) THEN "InsufficientFunds"
  ELSE "none"

PayRejectionInProgressOnly(profile, job) ==
  IF ~job.found THEN "NotFound"
  ELSE IF AlreadyPaid(job.paid) THEN "AlreadyPaid"
  ELSE IF NotContractClient(job, profile) THEN "Forbidden"
  ELSE IF ContractStatusOf[JobContractId[job.id]] # IN_PROGRESS THEN "Forbidden"
  ELSE IF InsufficientBalance(profile.balance, job.price) THEN "InsufficientFunds"
  ELSE "none"

PayRejection(profile, job) ==
  IF ~job.found THEN "NotFound"
  ELSE IF AlreadyPaid(job.paid) THEN "AlreadyPaid"
  ELSE IF NotContractClient(job, profile) THEN "Forbidden"
  ELSE IF InsufficientBalance(profile.balance, job.price) THEN "InsufficientFunds"
  ELSE "none"

PayFindJob(r) ==
  /\ req[r].pc = "payFindJob"
  /\ LET job == FindJob(req[r].job_id)
         rej == PayRejection(req[r].profile, job)
     IN req' = [req EXCEPT ![r] =
          IF rej # "none"
          THEN [@ EXCEPT !.pc = "payRollback", !.job = job, !.result = rej]
          ELSE [@ EXCEPT !.pc = "payUpdateClient", !.job = job]]
  /\ UNCHANGED <<balance, paid, paymentDate, now>>

\* await t.rollback() of a failed validation, then the rejection is sent.
PayRollbackSkipped(r) ==
  /\ req[r].pc = "payRollback"
  /\ req' = [req EXCEPT ![r] = Responded(@, req[r].result, "open")]
  /\ UNCHANGED <<balance, paid, paymentDate, now>>

PayRollback(r) ==
  /\ req[r].pc = "payRollback"
  /\ req' = [req EXCEPT ![r] = Responded(@, req[r].result, "rolledback")]
  /\ UNCHANGED <<balance, paid, paymentDate, now>>

\* t.rollback() of a failed validation rejects: control passes to the catch
\* block with the transaction's rollback already attempted.
PayRollbackError(r) ==
  /\ req[r].pc = "payRollback"
  /\ req' = [req EXCEPT ![r] = [@ EXCEPT !.pc = "payCatch",
                                         !.txn = "rollbackFailed"]]
  /\ UNCHANGED <<balance, paid, paymentDate, now>>

\* client.update({ balance: client.balance - job.price }, { transaction: t })
ClientDebit(clientBalance, price) == clientBalance - price

PayUpdateClient(r) ==
  /\ req[r].pc = "payUpdateClient"
  /\ ~LockedByOther(r, WriteRow(r))
  /\ LET v == ClientDebit(req[r].profile.balance, req[r].job.price)
     IN req' = [req EXCEPT ![r] =
          [@ EXCEPT !.pc = "payUpdateContractor",
                    !.profile.balance = v,
                    !.wrows = @ \cup {ProfileRow(req[r].profile.id)},
                    !.wbalance[req[r].profile.id] = v]]
  /\ UNCHANGED <<balance, paid, paymentDate, now>>

\* contractor.update({ balance: contractor.balance + job.price }, { transaction: t })
ContractorCredit(contractorBalance, price) == contractorBalance + price

PayUpdateContractor(r) ==
  /\ req[r].pc = "payUpdateContractor"
  /\ ~LockedByOther(r, WriteRow(r))
  /\ LET v == ContractorCredit(req[r].job.contractorBalance, req[r].job.price)
     IN req' = [req EXCEPT ![r] =
          [@ EXCEPT !.pc = "payUpdateJob",
                    !.job.contractorBalance = v,
                    !.wrows = @ \cup {ProfileRow(req[r].job.ContractorId)},
                    !.wbalance[req[r].job.ContractorId] = v]]
  /\ UNCHANGED <<balance, paid, paymentDate, now>>

\* job.update({ paid: true, paymentDate: new Date() }, { transaction: t })
PayUpdateJobNoWrite(r) ==
  /\ req[r].pc = "payUpdateJob"
  /\ req' = [req EXCEPT ![r] = [@ EXCEPT !.pc = "payCommit"]]
  /\ UNCHANGED <<balance, paid, paymentDate, now>>

\* The update without its row: every job of the contract is written.
PayUpdateJobWholeContract(r) ==
  /\ req[r].pc = "payUpdateJob"
  /\ ~LockedByOther(r, WriteRow(r))
  /\ now' = now + 1
  /\ req' = [req EXCEPT ![r] =
       [@ EXCEPT !.pc = "payCommit",
                 !.job.paid = "true",
                 !.wrows = @ \cup {JobRow(j) : j \in {k \in Jobs :
                              JobContractId[k] = JobContractId[req[r].job.id]}},
                 !.wdate = now + 1]]
  /\ UNCHANGED <<balance, paid, paymentDate>>

PayUpdateJob(r) ==
  /\ req[r].pc = "payUpdateJob"
  /\ ~LockedByOther(r, WriteRow(r))
  /\ now' = now + 1
  /\ req' = [req EXCEPT ![r] =
       [@ EXCEPT !.pc = "payCommit",
                 !.job.paid = "true",
                 !.wrows = @ \cup {JobRow(req[r].job.id)},
                 !.wdate = now + 1]]
  /\ UNCHANGED <<balance, paid, paymentDate>>

\* await t.commit(); res.json({ message: 'Payment successful' })
PayCommit(r) ==
  /\ req[r].pc = "payCommit"
  /\ balance' = CommittedBalance(r)
  /\ paid' = CommittedPaid(r)
  /\ paymentDate' = CommittedPaymentDate(r)
  /\ req' = [req EXCEPT ![r] = Responded(@, "ok", "committed")]
  /\ UNCHANGED now

\* A write that meets a row locked by another open transaction waits for it
\* (row-level locking) or is refused by the store (a serializable store); the
\* refusal is thrown into the handler's catch.
PayWriteRefused(r) ==
  /\ req[r].pc \in {"payUpdateClient", "payUpdateContractor", "payUpdateJob"}
  /\ LockedByOther(r, WriteRow(r))
  /\ req' = [req EXCEPT ![r] = [@ EXCEPT !.pc = "payCatch"]]
  /\ UNCHANGED <<balance, paid, paymentDate, now>>

\* Job.findOne, an update or t.commit() rejects (the connection is lost, the
\* database is busy, the disk is full): control passes to the catch block.  A
\* transaction whose commit was attempted is finished, committed or not.
PayPersistenceError(r) ==
  /\ req[r].pc \in {"payFindJob", "payUpdateClient", "payUpdateContractor",
                    "payUpdateJob", "payCommit"}
  /\ req' = [req EXCEPT ![r] =
       [@ EXCEPT !.pc = "payCatch",
                 !.txn = IF req[r].pc = "payCommit" THEN "commitFailed" ELSE @]]
  /\ UNCHANGED <<balance, paid, paymentDate, now>>

\* catch (error): await t.rollback(); res.status(500).  t.rollback() of a
\* finished transaction throws, and the lines after it do not run.
PayCatch(r) ==
  /\ req[r].pc = "payCatch"
  /\ IF req[r].txn = "open"
     THEN req' = [req EXCEPT ![r] = Responded(@, "InternalError", "rolledback")]
     ELSE \E forwarded \in BOOLEAN :
            req' = [req EXCEPT ![r] =
              IF forwarded THEN ErrorMiddleware(@, req[r].txn)
              ELSE Unanswered(@, req[r].txn)]
  /\ UNCHANGED <<balance, paid, paymentDate, now>>

\* catch (error): await t.rollback() rejects, res.status(500) does not run.
PayCatchRollbackError(r) ==
  /\ req[r].pc = "payCatch"
  /\ req[r].txn = "open"
  /\ \E forwarded \in BOOLEAN :
       req' = [req EXCEPT ![r] =
         IF forwarded THEN ErrorMiddleware(@, "rollbackFailed")
         ELSE Unanswered(@, "rollbackFailed")]
  /\ UNCHANGED <<balance, paid, paymentDate, now>>

\* ------------------------------------------ POST /balances/deposit/:userId
\* Validation 3: parseFloat, isNaN || amount <= 0, toFixed(2), amount <= 0.
\* The rounded amount in cents (Infinity stays Infinity), or the rejection.
AmountIsInvalid(body) ==
  \/ body.kind = "NaN"
  \/ body.kind = "number" /\ body.mills <= 0
  \/ body.kind = "number" /\ ToFixed2(body.mills) <= 0

\* Validation 2: clientProfile.type !== 'client'.
DepositorNotClientNever(clientProfile) == FALSE

DepositorNotClient(clientProfile) == clientProfile.type # "client"

\* Validations 1 to 3, then sequelize.transaction().
DepositRejection(profile, userId, body) ==
  IF profile.id # userId THEN "Forbidden"
  ELSE IF DepositorNotClient(profile) THEN "Forbidden"
  ELSE IF AmountIsInvalid(body) THEN "InvalidAmount"
  ELSE "none"

DepositBegin(r) ==
  /\ req[r].pc = "handler"
  /\ \E userId \in UserIdParams, body \in AmountParams :
       LET rej == DepositRejection(req[r].profile, userId, body)
       IN req' = [req EXCEPT ![r] =
            IF rej = "Forbidden"
            THEN Responded([@ EXCEPT !.op = "deposit", !.userId = userId],
                           rej, "none")
            ELSE IF rej # "none"
            THEN Responded([@ EXCEPT !.op = "deposit", !.userId = userId,
                                     !.body = body], rej, "none")
            ELSE [@ EXCEPT !.pc = "depositFindJobs", !.op = "deposit",
                           !.userId = userId, !.body = body,
                           !.amount = IF body.kind = "number"
                                      THEN ToFixed2(body.mills) ELSE 0,
                           !.txn = "open"]]
  /\ UNCHANGED <<balance, paid, paymentDate, now>>

\* sequelize.transaction() rejects, outside the try block.
DepositTransactionError(r) ==
  /\ req[r].pc = "handler"
  /\ \E userId \in UserIdParams, body \in AmountParams, forwarded \in BOOLEAN :
       /\ DepositRejection(req[r].profile, userId, body) = "none"
       /\ LET q == [req[r] EXCEPT !.op = "deposit", !.userId = userId,
                                  !.body = body]
          IN req' = [req EXCEPT ![r] =
               IF forwarded THEN ErrorMiddleware(q, "none")
               ELSE Unanswered(q, "none")]
  /\ UNCHANGED <<balance, paid, paymentDate, now>>

\* Job.findAll: the unpaid jobs (paid false or NULL) of the contracts that have
\* this client as ClientId and are in_progress, read in the transaction.
FindJobsPaidOrNot(clientId) ==
  {j \in Jobs :
     /\ ContractClientId[JobContractId[j]] = clientId
     /\ ContractStatusOf[JobContractId[j]] = IN_PROGRESS}

FindUnpaidJobsAnyStatus(clientId) ==
  {j \in Jobs :
     /\ paid[j] \in {"false", "null"}
     /\ ContractClientId[JobContractId[j]] = clientId}

FindUnpaidJobs(clientId) ==
  {j \in Jobs :
     /\ paid[j] \in {"false", "null"}
     /\ ContractClientId[JobContractId[j]] = clientId
     /\ ContractStatusOf[JobContractId[j]] = IN_PROGRESS}

\* unpaidJobs.reduce((sum, job) => sum + parseFloat(job.price), 0), the rows
\* taken in the order of their ids.
RECURSIVE SumPrices(_, _)
SumPrices(jobs, sum) ==
  IF jobs = {} THEN sum
  ELSE LET j == CHOOSE x \in jobs : \A y \in jobs : x <= y
       IN SumPrices(jobs \ {j}, FAdd(sum, CentsToDouble(JobPrice[j])))

\* maxDepositAllowed = totalJobsToPay * 0.25
MaxDepositAllowed(jobs) == FScale(SumPrices(jobs, DZero), -2)

\* amount > maxDepositAllowed
ExceedsLimitOrEqual(body, amount, jobs) ==
  \/ body.kind = "Infinity"
  \/ ~FGreater(MaxDepositAllowed(jobs), CentsToDouble(amount))

ExceedsLimitInfinityOnly(body, amount, jobs) == body.kind = "Infinity"

ExceedsLimit(body, amount, jobs) ==
  \/ body.kind = "Infinity"
  \/ FGreater(CentsToDouble(amount), MaxDepositAllowed(jobs))

DepositFindJobs(r) ==
  /\ req[r].pc = "depositFindJobs"
  /\ LET jobs == FindUnpaidJobs(req[r].profile.id)
     IN req' = [req EXCEPT ![r] =
          IF ExceedsLimit(req[r].body, req[r].amount, jobs)
          THEN [@ EXCEPT !.pc = "depositRollback", !.unpaidJobs = jobs,
                         !.result = "DepositLimitExceeded"]
          ELSE [@ EXCEPT !.pc = "depositUpdate", !.unpaidJobs = jobs]]
  /\ UNCHANGED <<balance, paid, paymentDate, now>>

\* await t.rollback() of an exceeded limit, then the rejection is sent.
DepositRollback(r) ==
  /\ req[r].pc = "depositRollback"
  /\ req' = [req EXCEPT ![r] = Responded(@, req[r].result, "rolledback")]
  /\ UNCHANGED <<balance, paid, paymentDate, now>>

\* t.rollback() of an exceeded limit rejects.
DepositRollbackError(r) ==
  /\ req[r].pc = "depositRollback"
  /\ req' = [req EXCEPT ![r] = [@ EXCEPT !.pc = "depositCatch",
                                         !.txn = "rollbackFailed"]]
  /\ UNCHANGED <<balance, paid, paymentDate, now>>

\* clientProfile.update({ balance: clientProfile.balance + amount }, { transaction: t })
\* The column keeps two fractional digits; the instance keeps the number.
ClientCredit(clientBalance, amount) == clientBalance + amount

\* The update without its row: every client account is written.
DepositUpdateAllClients(r) ==
  /\ req[r].pc = "depositUpdate"
  /\ ~LockedByOther(r, WriteRow(r))
  /\ LET v == ClientCredit(req[r].profile.balance, req[r].amount)
     IN req' = [req EXCEPT ![r] =
          [@ EXCEPT !.pc = "depositCommit",
                    !.newBalance = FAdd(CentsToDouble(req[r].profile.balance),
                                        CentsToDouble(req[r].amount)),
                    !.profile.balance = v,
                    !.wrows = @ \cup {ProfileRow(p) : p \in {q \in Profiles :
                                                          ProfileType[q] = "client"}},
                    !.wbalance = [p \in Profiles |->
                                    IF ProfileType[p] = "client" THEN v ELSE @[p]]]]
  /\ UNCHANGED <<balance, paid, paymentDate, now>>

DepositUpdate(r) ==
  /\ req[r].pc = "depositUpdate"
  /\ ~LockedByOther(r, WriteRow(r))
  /\ LET v == ClientCredit(req[r].profile.balance, req[r].amount)
     IN req' = [req EXCEPT ![r] =
          [@ EXCEPT !.pc = "depositCommit",
                    !.newBalance = FAdd(CentsToDouble(req[r].profile.balance),
                                        CentsToDouble(req[r].amount)),
                    !.profile.balance = v,
                    !.wrows = @ \cup {ProfileRow(req[r].profile.id)},
                    !.wbalance[req[r].profile.id] = v]]
  /\ UNCHANGED <<balance, paid, paymentDate, now>>

\* await t.commit(); res.json({ message, newBalance: parseFloat(clientProfile.balance) })
DepositCommit(r) ==
  /\ req[r].pc = "depositCommit"
  /\ balance' = CommittedBalance(r)
  /\ req' = [req EXCEPT ![r] = Responded(@, "ok", "committed")]
  /\ UNCHANGED <<paid, paymentDate, now>>

DepositWriteRefused(r) ==
  /\ req[r].pc = "depositUpdate"
  /\ LockedByOther(r, WriteRow(r))
  /\ req' = [req EXCEPT ![r] = [@ EXCEPT !.pc = "depositCatch"]]
  /\ UNCHANGED <<balance, paid, paymentDate, now>>

\* Job.findAll, the update or t.commit() rejects.
DepositPersistenceError(r) ==
  /\ req[r].pc \in {"depositFindJobs", "depositUpdate", "depositCommit"}
  /\ req' = [req EXCEPT ![r] =
       [@ EXCEPT !.pc = "depositCatch",
                 !.txn = IF req[r].pc = "depositCommit" THEN "commitFailed" ELSE @]]
  /\ UNCHANGED <<balance, paid, paymentDate, now>>

\* catch (error): await t.rollback(); res.status(500)
DepositCatch(r) ==
  /\ req[r].pc = "depositCatch"
  /\ IF req[r].txn = "open"
     THEN req' = [req EXCEPT ![r] = Responded(@, "InternalError", "rolledback")]
     ELSE \E forwarded \in BOOLEAN :
            req' = [req EXCEPT ![r] =
              IF forwarded THEN ErrorMiddleware(@, req[r].txn)
              ELSE Unanswered(@, req[r].txn)]
  /\ UNCHANGED <<balance, paid, paymentDate, now>>

\* catch (error): await t.rollback() rejects, res.status(500) does not run.
DepositCatchRollbackError(r) ==
  /\ req[r].pc = "depositCatch"
  /\ req[r].txn = "open"
  /\ \E forwarded \in BOOLEAN :
       req' = [req EXCEPT ![r] =
         IF forwarded THEN ErrorMiddleware(@, "rollbackFailed")
         ELSE Unanswered(@, "rollbackFailed")]
  /\ UNCHANGED <<balance, paid, paymentDate, now>>

\* The steps of one request once getProfile has resolved its caller.
HandlerStep(r) ==
  \/ PayBegin(r)
  \/ PayTransactionError(r)
  \/ PayPersistenceError(r)
  \/ PayWriteRefused(r)
  \/ PayRollback(r)
  \/ PayRollbackError(r)
  \/ PayCatch(r)
  \/ PayCatchRollbackError(r)
  \/ PayFindJob(r)
  \/ PayUpdateClient(r)
  \/ PayUpdateContractor(r)
  \/ PayUpdateJob(r)
  \/ PayCommit(r)
  \/ DepositBegin(r)
  \/ DepositTransactionError(r)
  \/ DepositPersistenceError(r)
  \/ DepositWriteRefused(r)
  \/ DepositRollback(r)
  \/ DepositRollbackError(r)
  \/ DepositCatch(r)
  \/ DepositCatchRollbackError(r)
  \/ DepositCommit(r)
  \/ DepositFindJobs(r)
  \/ DepositUpdate(r)

Next ==
  \E r \in Requests :
    \/ GetProfile(r)
    \/ GetProfileError(r)
    \/ HandlerStep(r)

Spec == Init /\ [][Next]_vars

\* Every awaited promise settles and the event loop runs its continuation:
\* a request that has a step to take takes one.
FairSpec == Spec /\ \A r \in Requests : WF_vars(HandlerStep(r))

\* =============================================================== claims
Done(r) == req[r].pc = "done"

\* The client and the contractor of the contract a job belongs to.
ClientOf(j) == ContractClientId[JobContractId[j]]

ContractorOf(j) == ContractContractorId[JobContractId[j]]

\* Request r is a payJob of job j whose caller is the client of j's contract.
PayByClient(r, j) ==
  req[r].op = "pay" /\ req[r].job_id = j /\ req[r].profile.id = ClientOf(j)

PaySucceeded(r, j) == PayByClient(r, j) /\ Done(r) /\ req[r].result = "ok"

\* Request r is a deposit into the caller's own account c that was approved.
DepositApproved(r, c) ==
  /\ req[r].op = "deposit" /\ req[r].profile.id = c /\ req[r].userId = c
  /\ Done(r) /\ req[r].result = "ok"

\* Both requests were issued, neither after the other had been answered.
Concurrent(r1, r2) ==
  /\ req[r1].pc # "idle" /\ req[r2].pc # "idle"
  /\ r1 \notin req[r2].after /\ r2 \notin req[r1].after

OthersIdle(rs) == \A q \in Requests \ rs : req[q].pc = "idle"

RECURSIVE SumBalances(_)
SumBalances(ps) ==
  IF ps = {} THEN 0
  ELSE LET p == CHOOSE x \in ps : TRUE IN balance[p] + SumBalances(ps \ {p})

RECURSIVE SumInitBalances(_)
SumInitBalances(ps) ==
  IF ps = {} THEN 0
  ELSE LET p == CHOOSE x \in ps : TRUE IN InitBalance[p] + SumInitBalances(ps \ {p})

RECURSIVE SumApprovedDeposits(_)
SumApprovedDeposits(rs) ==
  IF rs = {} THEN 0
  ELSE LET r == CHOOSE x \in rs : TRUE
       IN (IF req[r].op = "deposit" /\ Done(r) /\ req[r].result = "ok"
           THEN req[r].amount ELSE 0) + SumApprovedDeposits(rs \ {r})

RECURSIVE SumJobPrices(_)
SumJobPrices(js) ==
  IF js = {} THEN 0
  ELSE LET j == CHOOSE x \in js : TRUE IN JobPrice[j] + SumJobPrices(js \ {j})

\* C1: two concurrent payJob calls by the contract's client on the same unpaid
\* job, the client holding at least the price and no persistence operation
\* failing, end with exactly one success
\* and one rejection, the contractor credited and the client debited by the
\* price exactly once.
C1_ConcurrentDoublePay ==
  \A r1, r2 \in Requests, j \in Jobs :
    ( /\ r1 # r2 /\ OthersIdle({r1, r2})
      /\ PayByClient(r1, j) /\ PayByClient(r2, j)
      /\ Done(r1) /\ Done(r2) /\ Concurrent(r1, r2)
      /\ req[r1].result # "InternalError" /\ req[r2].result # "InternalError"
      /\ InitPaid[j] # "true" /\ InitBalance[ClientOf(j)] >= JobPrice[j] )
    => /\ (req[r1].result = "ok") # (req[r2].result = "ok")
       /\ balance[ContractorOf(j)] = InitBalance[ContractorOf(j)] + JobPrice[j]
       /\ balance[ClientOf(j)] = InitBalance[ClientOf(j)] - JobPrice[j]

\* C2: the commit of every successful payJob of a job priced P takes the
\* client's stored balance to its value just before minus P and the
\* contractor's to its value just before plus P.
C2_PaymentMovesExactlyPrice ==
  [][\A r \in Requests :
       (req[r].pc = "payCommit" /\ req'[r].pc = "done" /\ req'[r].result = "ok")
       => /\ balance'[req[r].profile.id] =
               balance[req[r].profile.id] - req[r].job.price
          /\ balance'[req[r].job.ContractorId] =
               balance[req[r].job.ContractorId] + req[r].job.price]_vars

\* C3: in every committed state the balances add up to the initial sum plus
\* the approved deposits.
C3_MoneyConserved ==
  SumBalances(Profiles) = SumInitBalances(Profiles) + SumApprovedDeposits(Requests)

\* C4: no stored balance is ever negative (the initial balances are not).
C4_BalanceNeverNegative == \A p \in Profiles : balance[p] >= 0

\* A payment has gone through and left its client with exactly nothing,
\* and a second request of that client was answered too.
C4_Witness ==
  \E r1, r2 \in Requests, j \in Jobs :
    /\ r1 # r2 /\ PaySucceeded(r1, j) /\ balance[ClientOf(j)] = 0
    /\ Done(r2) /\ req[r2].profile.id = ClientOf(j) /\ req[r2].txn # "none"

\* C5: for every job at most one payJob succeeds, and once one has, the job's
\* stored paid flag is true and stays so.
C5_PaidAtMostOnce ==
  \A j \in Jobs :
    /\ Cardinality({r \in Requests : PaySucceeded(r, j)}) <= 1
    /\ (\E r \in Requests : PaySucceeded(r, j)) => paid[j] = "true"

\* C6: once a job's stored paid flag is true, no step writes its paymentDate
\* (no step of either handler writes a price at all).
C6_PaidJobImmutable ==
  [][\A j \in Jobs : paid[j] = "true" => paymentDate'[j] = paymentDate[j]]_vars

\* C7: payJob called twice in sequence on one job by its client: when the
\* first call has succeeded, the second, unless a persistence failure ends it
\* with InternalError, is answered AlreadyPaid, and the balances are those
\* the first call left.
C7_SecondPayAlreadyPaid ==
  \A r1, r2 \in Requests, j \in Jobs :
    ( /\ r1 # r2 /\ OthersIdle({r1, r2})
      /\ PaySucceeded(r1, j) /\ PayByClient(r2, j)
      /\ r1 \in req[r2].after /\ Done(r2) )
    => /\ req[r2].result # "InternalError" => req[r2].result = "AlreadyPaid"
       /\ balance[ClientOf(j)] = InitBalance[ClientOf(j)] - JobPrice[j]
       /\ balance[ContractorOf(j)] = InitBalance[ContractorOf(j)] + JobPrice[j]

C7_Witness ==
  \E r1, r2 \in Requests, j \in Jobs :
    /\ r1 # r2 /\ PaySucceeded(r1, j) /\ PayByClient(r2, j)
    /\ r1 \in req[r2].after /\ Done(r2) /\ req[r2].result = "AlreadyPaid"

\* C8: a payJob by the contract's client on a job read unpaid is rejected
\* with InsufficientFunds exactly when the client's balance is below the
\* price, a balance equal to the price being accepted; no step of a request
\* so rejected changes a balance, a paid flag or a paymentDate.
C8_InsufficientFunds ==
  [][\A r \in Requests :
       /\ ( /\ req[r].pc = "payFindJob" /\ req'[r].pc # "payFindJob"
            /\ req'[r].job.found /\ req'[r].job.paid # "true"
            /\ req'[r].job.ClientId = req[r].profile.id )
          => ( req'[r].result = "InsufficientFunds"
               <=> req[r].profile.balance < req'[r].job.price )
       /\ (req'[r].result = "InsufficientFunds" /\ req'[r] # req[r])
          => UNCHANGED <<balance, paid, paymentDate>>]_vars

\* One payJob was accepted with a balance equal to the price, and another
\* was answered InsufficientFunds.
C8_Witness ==
  \E r1, r2 \in Requests, j \in Jobs :
    /\ PaySucceeded(r1, j) /\ InitBalance[ClientOf(j)] = JobPrice[j]
    /\ req[r1].after = {}
    /\ Done(r2) /\ req[r2].op = "pay" /\ req[r2].result = "InsufficientFunds"

\* C9: two concurrent deposits of one client, both approved, leave the
\* client's stored balance at the initial balance plus both amounts.
C9_ConcurrentDeposits ==
  \A r1, r2 \in Requests, c \in Profiles :
    ( /\ r1 # r2 /\ OthersIdle({r1, r2})
      /\ DepositApproved(r1, c) /\ DepositApproved(r2, c)
      /\ Concurrent(r1, r2) )
    => balance[c] = InitBalance[c] + req[r1].amount + req[r2].amount

\* C10: a valid deposit of amount A by a client whose unpaid in_progress jobs
\* total U is approved if and only if A <= 0.25 * U (in cents: 4A <= U).
C10_DepositCap ==
  \A r \in Requests :
    ( /\ req[r].pc \in {"depositRollback", "depositUpdate", "depositCommit"}
      /\ req[r].body.kind = "number" )
    => ( req[r].result = "DepositLimitExceeded"
         <=> 4 * req[r].amount > SumJobPrices(req[r].unpaidJobs) )

\* Every job of an in_progress contract of client c is stored as paid.
NoUnpaidJob(c) ==
  \A j \in Jobs :
    (ClientOf(j) = c /\ ContractStatusOf[JobContractId[j]] = IN_PROGRESS)
    => paid[j] = "true"

\* The stored unpaid jobs of the in_progress contracts of client c.
StoredUnpaidJobs(c) ==
  {j \in Jobs : /\ ClientOf(j) = c
                /\ ContractStatusOf[JobContractId[j]] = IN_PROGRESS
                /\ paid[j] # "true"}

\* C11: a deposit with a valid positive amount by a client who has no unpaid
\* job on an in_progress contract when the jobs are read is rejected with
\* DepositLimitExceeded, and no step of a deposit so rejected changes a balance.
C11_NoUnpaidJobsNoDeposit ==
  [][\A r \in Requests :
       /\ ( /\ req[r].pc = "depositFindJobs"
            /\ req'[r].pc \notin {"depositFindJobs", "depositCatch"}
            /\ req[r].body.kind = "number"
            /\ NoUnpaidJob(req[r].profile.id) )
          => /\ req'[r].pc = "depositRollback"
             /\ req'[r].result = "DepositLimitExceeded"
       /\ (req'[r].result = "DepositLimitExceeded" /\ req'[r] # req[r])
          => balance' = balance]_vars

\* A client whose jobs are all paid was refused a deposit of a valid amount.
C11_Witness ==
  \E r \in Requests :
    /\ Done(r) /\ req[r].op = "deposit" /\ req[r].body.kind = "number"
    /\ req[r].result = "DepositLimitExceeded" /\ NoUnpaidJob(req[r].profile.id)
    /\ balance[req[r].profile.id] = 0

\* C12: the jobs a deposit sums for its cap are those stored unpaid when it
\* reads them: none that a committed payJob has paid is among them, the
\* decision is taken against the cap of exactly these jobs, and the cap is 0
\* once all the client's jobs are paid.
C12_CapFromCurrentSnapshot ==
  [][\A r \in Requests :
       (req[r].pc = "depositFindJobs"
          /\ req'[r].pc \in {"depositRollback", "depositUpdate"})
       => /\ req'[r].unpaidJobs = StoredUnpaidJobs(req[r].profile.id)
          /\ \A q \in Requests, j \in Jobs :
               PaySucceeded(q, j) => j \notin req'[r].unpaidJobs
          /\ req'[r].result = "DepositLimitExceeded"
               <=> ExceedsLimit(req[r].body, req[r].amount,
                                StoredUnpaidJobs(req[r].profile.id))
          /\ NoUnpaidJob(req[r].profile.id)
               => MaxDepositAllowed(req'[r].unpaidJobs) = DZero]_vars

\* A deposit that followed a committed payment of one of its client's jobs
\* has read the remaining unpaid jobs and was let through on their cap.
C12_Witness ==
  \E r, q \in Requests, j \in Jobs :
    /\ PaySucceeded(q, j) /\ q \in req[r].after
    /\ req[r].op = "deposit" /\ req[r].profile.id = ClientOf(j)
    /\ req[r].pc = "depositUpdate"
    /\ req[r].unpaidJobs # {} /\ j \notin req[r].unpaidJobs

\* C13: the commit of an approved deposit of amount A takes the client's
\* stored balance to its value just before plus A, and the newBalance in the
\* response is that committed balance.
C13_DepositAddsExactlyAmount ==
  [][\A r \in Requests :
       (req[r].pc = "depositCommit" /\ req'[r].pc = "done"
          /\ req'[r].result = "ok")
       => /\ balance'[req[r].profile.id] =
               balance[req[r].profile.id] + req[r].amount
          /\ req'[r].newBalance = CentsToDouble(balance'[req[r].profile.id])]_vars

\* C14: a payJob that succeeds was called by the client of the job's contract,
\* wrote that client's balance less the price and that contract's contractor's
\* balance plus the price, and its commit changes no other account; a client
\* who is not the contract's client is answered Forbidden on an unpaid job,
\* and no step of a payJob answered Forbidden changes a balance or a job.
C14_PaysTheContractsParties ==
  [][\A r \in Requests :
       LET j == req[r].job_id
       IN /\ (req[r].pc = "payUpdateClient" /\ req'[r].pc = "payUpdateContractor")
             => /\ req[r].profile.id = ClientOf(j)
                /\ req'[r].wrows = req[r].wrows \cup {ProfileRow(ClientOf(j))}
                /\ req'[r].wbalance[ClientOf(j)] =
                     req[r].profile.balance - JobPrice[j]
          /\ (req[r].pc = "payUpdateContractor" /\ req'[r].pc = "payUpdateJob")
             => /\ req'[r].wrows = req[r].wrows \cup {ProfileRow(ContractorOf(j))}
                /\ req'[r].wbalance[ContractorOf(j)] =
                     req[r].job.contractorBalance + JobPrice[j]
          /\ (req[r].pc = "payCommit" /\ req'[r].pc = "done"
                /\ req'[r].result = "ok")
             => /\ req[r].profile.id = ClientOf(j)
                /\ balance' =
                     [balance EXCEPT ![ClientOf(j)] = req[r].wbalance[ClientOf(j)],
                                     ![ContractorOf(j)] =
                                        req[r].wbalance[ContractorOf(j)]]
          /\ ( /\ req[r].pc = "payFindJob"
               /\ req'[r].pc \notin {"payFindJob", "payCatch"}
               /\ j \in Jobs /\ paid[j] # "true"
               /\ req[r].profile.id # ClientOf(j) )
             => /\ req'[r].pc = "payRollback"
                /\ req'[r].result = "Forbidden"
          /\ (req'[r].result = "Forbidden" /\ req'[r] # req[r])
             => UNCHANGED <<balance, paid, paymentDate>>]_vars

\* One payJob has succeeded and another, by a client who is not the client
\* of the unpaid job's contract, was answered Forbidden after its rollback.
C14_Witness ==
  \E r1, r2 \in Requests, j1, j2 \in Jobs :
    /\ PaySucceeded(r1, j1)
    /\ balance[ContractorOf(j1)] = InitBalance[ContractorOf(j1)] + JobPrice[j1]
    /\ Done(r2) /\ req[r2].op = "pay" /\ req[r2].job_id = j2
    /\ req[r2].profile.type = "client" /\ req[r2].profile.id # ClientOf(j2)
    /\ paid[j2] # "true"
    /\ req[r2].result = "Forbidden" /\ req[r2].txn = "rolledback"

\* C15: a payJob whose caller is not of type client is answered Forbidden at
\* once, whatever the job: no transaction is started and nothing is written.
C15_OnlyClientsPay ==
  [][\A r \in Requests :
       (req[r].pc = "handler" /\ req'[r].op = "pay"
          /\ req[r].profile.type # "client")
       => /\ req'[r].pc = "done" /\ req'[r].result = "Forbidden"
          /\ req'[r].txn = "none"
          /\ UNCHANGED <<balance, paid, paymentDate>>]_vars

C15_Witness ==
  \E r \in Requests :
    /\ Done(r) /\ req[r].op = "pay" /\ req[r].profile.type = "contractor"
    /\ req[r].result = "Forbidden" /\ req[r].txn = "none"

\* C16: a deposit whose caller is not the target account, or is not of type
\* client, is answered Forbidden at once and changes no balance; no step of
\* any deposit changes the balance of an account that is not a client.
C16_OnlyOwnClientAccount ==
  [][\A r \in Requests :
       /\ ( /\ req[r].pc = "handler" /\ req'[r].op = "deposit"
            /\ \/ req[r].profile.id # req'[r].userId
               \/ req[r].profile.type # "client" )
          => /\ req'[r].pc = "done" /\ req'[r].result = "Forbidden"
             /\ req'[r].txn = "none"
             /\ balance' = balance
       /\ (req'[r].op = "deposit" /\ req'[r] # req[r])
          => \A p \in Profiles :
               ProfileType[p] # "client" => balance'[p] = balance[p]]_vars

\* A contractor's deposit into its own account and a client's deposit into
\* another account were both answered Forbidden.
C16_Witness ==
  \E r1, r2 \in Requests :
    /\ Done(r1) /\ req[r1].op = "deposit" /\ req[r1].result = "Forbidden"
    /\ req[r1].profile.type = "contractor" /\ req[r1].userId = req[r1].profile.id
    /\ Done(r2) /\ req[r2].op = "deposit" /\ req[r2].result = "Forbidden"
    /\ req[r2].profile.type = "client" /\ req[r2].userId # req[r2].profile.id

\* The requested amount is not a number, is not finite, is zero or negative,
\* or is below half a cent.
InvalidRequestedAmount(body) ==
  \/ body.kind \in {"NaN", "Infinity"}
  \/ body.kind = "number" /\ body.mills < 5

\* C17: a client's deposit into its own account with an amount that is not a
\* number, not finite, zero or negative, or that rounds to zero, is answered
\* InvalidAmount at once: no transaction is started and no balance changes.
C17_InvalidAmount ==
  [][\A r \in Requests :
       ( /\ req[r].pc = "handler" /\ req'[r].op = "deposit"
         /\ req[r].profile.id = req'[r].userId
         /\ req[r].profile.type = "client"
         /\ InvalidRequestedAmount(req'[r].body) )
       => /\ req'[r].pc = "done" /\ req'[r].result = "InvalidAmount"
          /\ req'[r].txn = "none"
          /\ balance' = balance]_vars

\* The rejections the handlers decide inside their transaction.
RejectedInTransaction(r) ==
  \/ req[r].result \in {"NotFound", "AlreadyPaid", "InsufficientFunds",
                        "DepositLimitExceeded"}
  \/ req[r].result = "Forbidden" /\ req[r].op = "pay"
       /\ req[r].profile.type = "client"

\* C18: a request answered with a rejection decided inside its transaction
\* has rolled that transaction back, and a request answered with success has
\* committed it.
C18_RollbackBeforeRejection ==
  \A r \in Requests :
    Done(r) =>
      /\ RejectedInTransaction(r) => req[r].txn = "rolledback"
      /\ req[r].result = "ok" => req[r].txn = "committed"

C18_Witness ==
  \E r1, r2 \in Requests :
    /\ Done(r1) /\ RejectedInTransaction(r1) /\ req[r1].txn = "rolledback"
    /\ Done(r2) /\ req[r2].result = "ok" /\ req[r2].txn = "committed"
    /\ req[r1].op # req[r2].op

\* C19: when Job.findOne, an update or the commit of a payJob fails (and no
\* rollback does), the request changes no balance, paid flag or paymentDate
\* and is answered InternalError.
C19_PayFailureRollsBack ==
  [][\A r \in Requests :
       /\ (req'[r].pc = "payCatch" /\ req'[r] # req[r])
          => UNCHANGED <<balance, paid, paymentDate>>
       /\ (req[r].pc = "payCatch" /\ req'[r] # req[r]
             /\ req'[r].txn # "rollbackFailed")
          => /\ UNCHANGED <<balance, paid, paymentDate>>
             /\ req'[r].pc = "done" /\ req'[r].result = "InternalError"]_vars

\* C20: the effects of a payment become visible together: the only step of a
\* payJob that changes a stored balance, paid flag or paymentDate is its
\* commit, which at once stores the client's debited balance, the
\* contractor's credited balance, and paid = true with the paymentDate.
C20_PaymentEffectsTogether ==
  [][\A r \in Requests :
       (req[r].op = "pay" /\ req'[r] # req[r])
       => \/ UNCHANGED <<balance, paid, paymentDate>>
          \/ LET j == req[r].job_id
             IN /\ req[r].pc = "payCommit" /\ req'[r].result = "ok"
                /\ paid'[j] = "true" /\ paymentDate'[j] = req[r].wdate
                /\ paymentDate'[j] > 0
                /\ balance'[ClientOf(j)] = req[r].wbalance[ClientOf(j)]
                /\ balance'[ContractorOf(j)] = req[r].wbalance[ContractorOf(j)]
                /\ req[r].wrows = {ProfileRow(ClientOf(j)),
                                   ProfileRow(ContractorOf(j)), JobRow(j)}]_vars

\* A single payment has committed: the job is paid and dated, the client is
\* debited and the contractor credited.
C20_Witness ==
  \E r \in Requests, j \in Jobs :
    /\ PaySucceeded(r, j) /\ OthersIdle({r})
    /\ paid[j] = "true" /\ paymentDate[j] > 0
    /\ balance[ClientOf(j)] = InitBalance[ClientOf(j)] - JobPrice[j]
    /\ balance[ContractorOf(j)] = InitBalance[ContractorOf(j)] + JobPrice[j]

\* C21: payJob checks the price, and computes the debit, against the
\* client's balance as stored when its transaction reads and writes, not
\* against the balance getProfile read before.
C21_FundsCheckOnStoredBalance ==
  [][\A r \in Requests :
       LET j == req[r].job_id
       IN /\ ( /\ req[r].pc = "payFindJob"
               /\ req'[r].pc \in {"payRollback", "payUpdateClient"}
               /\ j \in Jobs /\ paid[j] # "true"
               /\ ClientOf(j) = req[r].profile.id )
             => ( req'[r].result = "InsufficientFunds"
                  <=> balance[ClientOf(j)] < JobPrice[j] )
          /\ (req[r].pc = "payUpdateClient" /\ req'[r].pc = "payUpdateContractor")
             => req'[r].wbalance[ClientOf(j)] = balance[ClientOf(j)] - JobPrice[j]]_vars

\* C22: a deposit of A and a payJob of price P by one client, concurrent and
\* both successful, leave that client's stored balance at initial + A - P.
C22_ConcurrentDepositAndPay ==
  \A r1, r2 \in Requests, j \in Jobs :
    ( /\ r1 # r2 /\ OthersIdle({r1, r2})
      /\ DepositApproved(r1, ClientOf(j)) /\ PaySucceeded(r2, j)
      /\ Concurrent(r1, r2) )
    => balance[ClientOf(j)] =
         InitBalance[ClientOf(j)] + req[r1].amount - JobPrice[j]

\* C23: two concurrent successful payJobs by different clients for two jobs
\* of one contractor leave the contractor's stored balance at initial plus
\* both prices.
C23_ConcurrentPaysSameContractor ==
  \A r1, r2 \in Requests, j1, j2 \in Jobs :
    ( /\ r1 # r2 /\ j1 # j2 /\ OthersIdle({r1, r2})
      /\ PaySucceeded(r1, j1) /\ PaySucceeded(r2, j2)
      /\ ClientOf(j1) # ClientOf(j2) /\ ContractorOf(j1) = ContractorOf(j2)
      /\ Concurrent(r1, r2) )
    => balance[ContractorOf(j1)] =
         InitBalance[ContractorOf(j1)] + JobPrice[j1] + JobPrice[j2]

\* C24: the jobs a deposit totals for its cap are exactly the stored jobs that
\* are unpaid and belong to a contract with the caller as ClientId and status
\* in_progress; an approved amount is within a quarter of their total and a
\* refused one is not below it.
C24_CapCountsExactlyOwnUnpaidJobs ==
  [][\A r \in Requests :
       (req[r].pc = "depositFindJobs"
          /\ req'[r].pc \in {"depositRollback", "depositUpdate"})
       => /\ \A j \in Jobs :
               j \in req'[r].unpaidJobs
               <=> /\ paid[j] # "true"
                   /\ ContractClientId[JobContractId[j]] = req[r].profile.id
                   /\ ContractStatusOf[JobContractId[j]] = "in_progress"
          /\ req[r].body.kind = "number"
               => IF req'[r].pc = "depositUpdate"
                  THEN 4 * req[r].amount <= SumJobPrices(req'[r].unpaidJobs)
                  ELSE 4 * req[r].amount >= SumJobPrices(req'[r].unpaidJobs)]_vars

\* A deposit has read its jobs while its client had a paid job, an unpaid job
\* under a terminated contract, and another client had unpaid jobs.
C24_Witness ==
  \E r \in Requests, j1, j2, j3 \in Jobs :
    /\ req[r].pc \in {"depositRollback", "depositUpdate"}
    /\ req[r].unpaidJobs # {}
    /\ ClientOf(j1) = req[r].profile.id /\ paid[j1] = "true"
    /\ ClientOf(j2) = req[r].profile.id /\ paid[j2] # "true"
    /\ ContractStatusOf[JobContractId[j2]] = "terminated"
    /\ ClientOf(j3) # req[r].profile.id /\ paid[j3] # "true"
    /\ ContractStatusOf[JobContractId[j3]] = "in_progress"

C26_CheckOrder ==
  [][\A r \in Requests :
       LET j == req[r].job_id
       IN (req[r].pc = "payFindJob"
             /\ req'[r].pc \in {"payRollback", "payUpdateClient"})
          => req'[r].result =
               IF j \notin Jobs THEN "NotFound"
               ELSE IF paid[j] = "true" THEN "AlreadyPaid"
               ELSE IF ClientOf(j) # req[r].profile.id THEN "Forbidden"
               ELSE IF req[r].profile.balance < JobPrice[j] THEN "InsufficientFunds"
               ELSE "none"]_vars

\* A client who is not the client of a paid job's contract was answered
\* AlreadyPaid.
C26_Witness ==
  \E r1, r2 \in Requests, j \in Jobs :
    /\ PaySucceeded(r1, j) /\ Done(r2) /\ req[r2].op = "pay"
    /\ req[r2].job_id = j /\ req[r2].profile.id # ClientOf(j)
    /\ req[r2].result = "AlreadyPaid"

\* C27: every deposit and payJob invocation is eventually answered.
C27_EveryRequestAnswered ==
  \A r \in Requests : (req[r].pc = "handler") ~> Done(r)

\* C28: a handler that has ended has left its transaction, if it began one,
\* committed or rolled back (a single rollback that itself failed is not held
\* against it), and the catch block's rollback is only ever called on a
\* transaction on which neither commit nor rollback was called before.
C28_TransactionEndedOnce ==
  \A r \in Requests :
    /\ req[r].pc \in {"done", "unanswered"}
         => req[r].txn \in {"none", "committed", "rolledback", "rollbackFailed"}
    /\ req[r].pc \in {"payCatch", "depositCatch"} => req[r].txn = "open"

\* C29: while no job is paid, every deposit of exactly a quarter of the
\* client's unpaid total U > 0 is approved, however many were approved before.
C29_CapPerRequest ==
  \A r \in Requests :
    ( /\ Done(r) /\ req[r].op = "deposit" /\ req[r].body.kind = "number"
      /\ req[r].userId = req[r].profile.id /\ req[r].profile.type = "client"
      /\ req[r].result # "InternalError"
      /\ \A q \in Requests : req[q].op # "pay"
      /\ SumJobPrices(StoredUnpaidJobs(req[r].profile.id)) > 0
      /\ 4 * req[r].amount = SumJobPrices(StoredUnpaidJobs(req[r].profile.id)) )
    => req[r].result = "ok"

\* C30: for an unpaid job under a contract that is not in_progress, payJob
\* goes on to pay exactly when the caller is the contract's client and holds
\* at least the price, as for any other job.
C30_ContractStatusIgnored ==
  [][\A r \in Requests :
       LET j == req[r].job_id
       IN ( /\ req[r].pc = "payFindJob"
            /\ req'[r].pc \in {"payRollback", "payUpdateClient"}
            /\ j \in Jobs /\ paid[j] # "true"
            /\ ContractStatusOf[JobContractId[j]] # "in_progress" )
          => ( req'[r].pc = "payUpdateClient"
               <=> /\ ClientOf(j) = req[r].profile.id
                   /\ req[r].profile.balance >= JobPrice[j] )]_vars

\* A job under a terminated contract and a job under a new contract have
\* both been paid.
C30_Witness ==
  \E r1, r2 \in Requests, j1, j2 \in Jobs :
    /\ PaySucceeded(r1, j1) /\ ContractStatusOf[JobContractId[j1]] = "terminated"
    /\ PaySucceeded(r2, j2) /\ ContractStatusOf[JobContractId[j2]] = "new"
    /\ paid[j1] = "true" /\ paid[j2] = "true"

\* C31: every step of a deposit, approved or rejected, leaves every job's
\* paid flag and paymentDate and every account's balance but the depositing
\* client's as they were; only the commit of an approved deposit changes
\* that balance.
C31_DepositFrame ==
  [][\A r \in Requests :
       (req'[r].op = "deposit" /\ req'[r] # req[r])
       => /\ paid' = paid /\ paymentDate' = paymentDate
          /\ \A p \in Profiles \ {req[r].profile.id} : balance'[p] = balance[p]
          /\ balance' # balance
               => req[r].pc = "depositCommit" /\ req'[r].result = "ok"]_vars

\* One deposit was approved and changed its client's balance, another was
\* refused inside its transaction.
C31_Witness ==
  \E r1, r2 \in Requests, c \in Profiles :
    /\ DepositApproved(r1, c) /\ balance[c] # InitBalance[c]
    /\ Done(r2) /\ req[r2].op = "deposit"
    /\ req[r2].result = "DepositLimitExceeded"

\* C32: the commit of a successful payJob of job j changes no balance but
\* those of the client and the contractor of j's contract and no job's paid
\* flag or paymentDate but j's; every other step of a payJob, and so every
\* step of a rejected one, changes no stored field.
C32_PayFrame ==
  [][\A r \in Requests :
       (req'[r].op = "pay" /\ req'[r] # req[r])
       => IF req[r].pc = "payCommit" /\ req'[r].result = "ok"
          THEN LET j == req[r].job_id
               IN /\ \A p \in Profiles \ {ClientOf(j), ContractorOf(j)} :
                       balance'[p] = balance[p]
                  /\ \A k \in Jobs \ {j} :
                       paid'[k] = paid[k] /\ paymentDate'[k] = paymentDate[k]
          ELSE UNCHANGED <<balance, paid, paymentDate>>]_vars

\* A payJob has succeeded on a contract with a second, still unpaid job, and
\* another payJob was rejected inside its transaction.
C32_Witness ==
  \E r1, r2 \in Requests, j, k \in Jobs :
    /\ PaySucceeded(r1, j) /\ paid[j] = "true"
    /\ k # j /\ JobContractId[k] = JobContractId[j] /\ paid[k] # "true"
    /\ Done(r2) /\ req[r2].op = "pay"
    /\ req[r2].result \in {"AlreadyPaid", "Forbidden", "InsufficientFunds", "NotFound"}

====
